---- MODULE Spec2Model ----
(***************************************************************************)
(* Nonogram solver: the line solver of board.rs (placement graph with     *)
(* reachability), the propagation driver and the branching search of      *)
(* solver.rs, and the priority set of util.rs.                             *)
(*                                                                         *)
(* Cells of a line and of the board are kept in sequences; the code's      *)
(* indices are 0-based, so get_cell(line, i) reads element i + 1.          *)
(***************************************************************************)
EXTENDS Integers, Sequences, FiniteSets, TLC

\* ------------------------------------------------------------------ bounds
\* longest line of the exhaustive line-solver inputs
MaxLen == 5
\* longest run length in an enumerated constraint list
MaxRun == 3
\* most runs in an enumerated constraint list
MaxCons == 2
\* length of the long lines that are solved against LongCons only
LongLen == 8
\* widest and highest board of the exhaustively enumerated puzzles
MaxW == 2
MaxH == 2
MaxPriority == 2

\* --------------------------------------------------------------- board.rs
\* enum Cell
Unknown == "Unknown"
Empty == "Empty"
Filled == "Filled"
Cell == {Unknown, Empty, Filled}

\* LineRef::size
size(line) == Len(line)

\* LineRef::get_cell, 0-based index
get_cell(line, index) == line[index + 1]

\* Constraint::get_length of the constraint with 0-based index i
get_length(c, i) == c[i + 1]

RECURSIVE SumFirst(_, _)
\* sum of the first n run lengths of c
SumFirst(c, n) == IF n = 0 THEN 0 ELSE c[n] + SumFirst(c, n - 1)

\* c.iter().map(|x| x.get_length() as usize).sum()
c_sum(c) == SumFirst(c, Len(c))

\* get_constraint_bounds without the separator cells between the runs
get_constraint_bounds_no_gaps(ls, index) ==
    [left  |-> SumFirst(ls, index),
     right |-> c_sum(ls) - SumFirst(ls, index + 1)]

\* get_constraint_bounds: cells taken left and right of constraint index
get_constraint_bounds(ls, index) ==
    [left  |-> index + SumFirst(ls, index),
     right |-> (Len(ls) - index - 1) + (c_sum(ls) - SumFirst(ls, index + 1))]

\* the mathematical value of size + 1 - c_sum - c.len(); the code computes it
\* in usize, where a negative value is an arithmetic underflow
extra_space(line, c) == size(line) + 1 - c_sum(c) - Len(c)

\* can_fit_constraint that takes only Unknown cells for the inside of a run
can_fit_constraint_unknown_only(line, pos, len) ==
    /\ (pos > 0 => get_cell(line, pos - 1) # Filled)
    /\ (pos + len < size(line) => get_cell(line, pos + len) # Filled)
    /\ \A i \in pos..(pos + len - 1) : get_cell(line, i) = Unknown

\* can_fit_constraint: a run of len cells at pos with no Filled neighbour and
\* no Empty cell inside (callers keep pos + len <= size; otherwise it panics)
can_fit_constraint(line, pos, len) ==
    /\ (pos > 0 => get_cell(line, pos - 1) # Filled)
    /\ (pos + len < size(line) => get_cell(line, pos + len) # Filled)
    /\ \A i \in pos..(pos + len - 1) : get_cell(line, i) # Empty

\* the panic test at the head of can_fit_constraint
can_fit_oob(line, pos, len) == pos + len > size(line)

\* forces a function constructor into an explicit table
Table(f) == f @@ << >>

\* pass 1 of try_solve_line_complete and of is_solvable: nodelist[i][j] for
\* constraint i at offset j, h = num_nodes_height
node_viable(line, c, h, i, j) ==
    LET left == get_constraint_bounds(c, i).left
        value == get_length(c, i)
    IN  /\ can_fit_constraint(line, left + j, value)
        /\ (i = 0 /\ j > 1) =>
              \A q \in 0..(j - 2) : get_cell(line, q) # Filled
        /\ (i = Len(c) - 1 /\ j + 2 < h) =>
              \A q \in (size(line) - h + j + 2)..(size(line) - 1) :
                  get_cell(line, q) # Filled

make_node_list(line, c, h) ==
    Table([i \in 0..(Len(c) - 1) |->
              Table([j \in 0..(h - 1) |-> node_viable(line, c, h, i, j)])])

\* determine_edge accepting every gap
determine_edge_any_gap(i, j, k, c, line) == TRUE

\* determine_edge: the gap between NODE[i, j] and NODE[i+1, k] has no Filled
determine_edge(i, j, k, c, line) ==
    IF k <= j + 1
    THEN TRUE
    ELSE LET left == get_constraint_bounds(c, i).left
             i0_value == get_length(c, i)
             pos == left + i0_value + j + 1
             width == k - j - 1
         IN  \A x \in pos..(pos + width - 1) : get_cell(line, x) # Filled

\* get_edge_range: the cells of that gap, as a set (None is the empty set)
get_edge_range(i, j, k, c) ==
    IF k <= j + 1
    THEN {}
    ELSE LET left == get_constraint_bounds(c, i).left
             i0_value == get_length(c, i)
             pos == left + i0_value + j + 1
             width == k - j - 1
         IN  pos..(pos + width - 1)

\* get_node_range: [start, end) of constraint i at offset j
get_node_range(i, j, c) ==
    LET left == get_constraint_bounds(c, i).left
    IN  [start |-> left + j, end |-> left + j + get_length(c, i)]

\* Option<bool> of the `determined` table
None == "None"
SomeTrue == "Some(true)"
SomeFalse == "Some(false)"

RECURSIVE path_values_viable_only(_, _, _, _, _, _)
\* path_values taking every viable node as the start of a full path
path_values_viable_only(i, tab, line, c, h, nodelist) ==
    IF i < 0
    THEN tab
    ELSE LET layer == Table([j \in 0..(h - 1) |-> nodelist[i][j]])
         IN  path_values_viable_only(i - 1, (i :> layer) @@ tab, line, c, h, nodelist)

RECURSIVE path_values(_, _, _, _, _, _)
\* find_full_paths, the value it stores for a node it visits: the node is
\* viable and it is in the last layer or a valid edge leads to a true child.
\* Layers i..0 are filled in, tab holds the layers below.
path_values(i, tab, line, c, h, nodelist) ==
    IF i < 0
    THEN tab
    ELSE LET layer == Table([j \in 0..(h - 1) |->
                 /\ nodelist[i][j]
                 /\ \/ i = Len(c) - 1
                    \/ \E k \in j..(h - 1) :
                          determine_edge(i, j, k, c, line) /\ tab[i + 1][k]])
         IN  path_values(i - 1, (i :> layer) @@ tab, line, c, h, nodelist)

RECURSIVE path_visited(_, _, _, _, _, _)
\* find_full_paths, the nodes it visits: every node of layer 0 (the calls of
\* try_solve_line_complete), and every child k >= j behind a valid edge of a
\* visited viable node that is not in the last layer
path_visited(i, tab, line, c, h, nodelist) ==
    IF i > Len(c) - 1
    THEN tab
    ELSE LET layer == Table([k \in 0..(h - 1) |->
                 \/ i = 0
                 \/ \E j \in 0..k :
                       /\ tab[i - 1][j]
                       /\ nodelist[i - 1][j]
                       /\ determine_edge(i - 1, j, k, c, line)])
         IN  path_visited(i + 1, (i :> layer) @@ tab, line, c, h, nodelist)

\* pass 2: the `determined` table after find_full_paths ran from every
\* NODE[0, j]
find_full_paths(line, c, h, nodelist) ==
    LET values == path_values(Len(c) - 1, << >>, line, c, h, nodelist)
        visited == path_visited(0, << >>, line, c, h, nodelist)
    IN  Table([i \in 0..(Len(c) - 1) |->
            Table([j \in 0..(h - 1) |->
                IF ~visited[i][j] THEN None
                ELSE IF values[i][j] THEN SomeTrue ELSE SomeFalse])])

SetMax(S) == CHOOSE x \in S : \A y \in S : y <= x

\* the candidates of (j..num_nodes_height).filter(..).max() for NODE[i, j]
longest_edge_candidates(i, j, h, determined) ==
    {k \in j..(h - 1) : determined[i + 1][k] = SomeTrue}

\* the nodes pass 3 iterates over
valid_nodes(c, h, determined) ==
    {n \in (0..(Len(c) - 1)) \X (0..(h - 1)) : determined[n[1]][n[2]] = SomeTrue}

\* max().unwrap() on an empty iterator
unwrap_panics(c, h, determined) ==
    \E n \in valid_nodes(c, h, determined) :
        /\ n[1] < Len(c) - 1
        /\ longest_edge_candidates(n[1], n[2], h, determined) = {}

\* pass 3: the cells NODE[i, j] marks as able to be empty
marks_empty(line, c, h, determined, i, j) ==
    LET r == get_node_range(i, j, c)
        before == IF i = 0 THEN 0..(r.start - 1)
                  ELSE IF r.start > 0 THEN {r.start - 1} ELSE {}
        after == IF i = Len(c) - 1 THEN r.end..(size(line) - 1)
                 ELSE IF r.end < size(line) THEN {r.end} ELSE {}
        gap == IF i < Len(c) - 1
               THEN get_edge_range(i, j,
                        SetMax(longest_edge_candidates(i, j, h, determined)), c)
               ELSE {}
    IN  before \cup after \cup gap

\* pass 3: the cells NODE[i, j] marks as able to be filled
marks_filled(c, i, j) ==
    LET r == get_node_range(i, j, c) IN r.start..(r.end - 1)

\* pass 3: node_values, as the pair (can_be_empty, can_be_filled) per cell
node_values(line, c, h, determined) ==
    LET nodes == valid_nodes(c, h, determined)
        e == UNION {marks_empty(line, c, h, determined, n[1], n[2]) : n \in nodes}
        f == UNION {marks_filled(c, n[1], n[2]) : n \in nodes}
    IN  [p \in 0..(size(line) - 1) |->
            [can_be_empty |-> p \in e, can_be_filled |-> p \in f]]

\* the decision loop reporting a cell that already has its forced value
decide_reports_known(cell, v) ==
    IF v.can_be_empty /\ ~v.can_be_filled
    THEN (IF cell = Filled THEN "contradiction" ELSE Empty)
    ELSE IF ~v.can_be_empty /\ v.can_be_filled
    THEN (IF cell = Empty THEN "contradiction" ELSE Filled)
    ELSE IF ~v.can_be_empty /\ ~v.can_be_filled
    THEN "contradiction"
    ELSE "keep"

\* the decision loop: what one iteration does with a cell
decide(cell, v) ==
    IF v.can_be_empty /\ ~v.can_be_filled
    THEN (IF cell = Filled THEN "contradiction"
          ELSE IF cell = Unknown THEN Empty ELSE "keep")
    ELSE IF ~v.can_be_empty /\ v.can_be_filled
    THEN (IF cell = Empty THEN "contradiction"
          ELSE IF cell = Unknown THEN Filled ELSE "keep")
    ELSE IF ~v.can_be_empty /\ ~v.can_be_filled
    THEN "contradiction"
    ELSE "keep"

\* the loop runs over the cells in index order, writes as it goes and returns
\* None at the first contradiction: acts[p] is what iteration p would do
run_decisions(line, acts) ==
    LET L == size(line)
        bad == {p \in 0..(L - 1) : acts[p] = "contradiction"}
        stop == IF bad = {} THEN L ELSE CHOOSE p \in bad : \A q \in bad : p <= q
        written == [p \in 1..L |->
                       IF p - 1 < stop /\ acts[p - 1] \in {Empty, Filled}
                       THEN acts[p - 1] ELSE line[p]]
        idx == [p \in 1..L |-> p - 1]
    IN  [status |-> IF bad = {} THEN "Some" ELSE "None",
         ret |-> IF bad = {}
                 THEN SelectSeq(idx, LAMBDA p : acts[p] \in {Empty, Filled})
                 ELSE << >>,
         line |-> written]

\* the special case without the contradiction on a Filled cell
solve_no_constraints_ignores_filled(line) ==
    run_decisions(line,
        [p \in 0..(size(line) - 1) |->
            IF get_cell(line, p) = Unknown THEN Empty ELSE "keep"])

\* the special case c.len() == 0: every cell must be empty
solve_no_constraints(line) ==
    run_decisions(line,
        [p \in 0..(size(line) - 1) |->
            IF get_cell(line, p) = Unknown THEN Empty
            ELSE IF get_cell(line, p) = Filled THEN "contradiction" ELSE "keep"])

\* passes 1 to 3 and the decision loop for num_nodes_height = h
solve_with_height(line, c, h) ==
    LET nodelist == make_node_list(line, c, h)
        determined == find_full_paths(line, c, h, nodelist)
    IN  IF unwrap_panics(c, h, determined)
        THEN [status |-> "Panic", ret |-> << >>, line |-> line]
        ELSE LET nv == node_values(line, c, h, determined)
             IN  run_decisions(line,
                     [p \in 0..(size(line) - 1) |-> decide(get_cell(line, p), nv[p])])

\* What the unsigned arithmetic of extra_space and num_nodes_height does on
\* a negative extra_space. A build with overflow checks panics on the
\* subtraction. Without them -1 wraps to usize::MAX and num_nodes_height
\* wraps on to 0; a smaller value leaves a height near 2^64, and the loop
\* over j then runs can_fit_constraint past the end of the line, which
\* panics ("OOB????").
slack_panics(line, c, overflow_checks) ==
    LET e == extra_space(line, c)
    IN  /\ e < 0
        /\ \/ overflow_checks
           \/ /\ e < -1
              /\ \E j \in 0..size(line) : can_fit_oob(line, j, get_length(c, 0))

\* num_nodes_height = extra_space + 1 where that arithmetic does not panic
num_nodes_height(line, c) ==
    LET e == extra_space(line, c) IN IF e >= 0 THEN e + 1 ELSE 0

\* try_solve_line_complete that determines no cell
try_solve_line_complete_idle(line, c, overflow_checks) ==
    [status |-> "Some", ret |-> << >>, line |-> line]

\* LineMut::try_solve_line_complete: status Some with the list of modified
\* cells, None for a contradiction, or Panic; line is the line afterwards
try_solve_line_complete(line, c, overflow_checks) ==
    IF Len(c) = 0
    THEN solve_no_constraints(line)
    ELSE IF slack_panics(line, c, overflow_checks)
    THEN [status |-> "Panic", ret |-> << >>, line |-> line]
    ELSE solve_with_height(line, c, num_nodes_height(line, c))

\* is_solvable without its reverse sweep
solvable_sweep_skipped(i, nodelist, line, c, h) == nodelist

RECURSIVE solvable_sweep(_, _, _, _, _)
\* is_solvable, the reverse sweep over layers i..0 of its nodelist:
\* NODE[i,j] = NODE[i,j] && exists k >= j: NODE[i+1,k] && EDGE[i,j,k]
solvable_sweep(i, nodelist, line, c, h) ==
    IF i < 0
    THEN nodelist
    ELSE LET layer == Table([j \in 0..(h - 1) |->
                 /\ nodelist[i][j]
                 /\ \E k \in j..(h - 1) :
                       nodelist[i + 1][k] /\ determine_edge(i, j, k, c, line)])
         IN  solvable_sweep(i - 1, (i :> layer) @@ nodelist, line, c, h)

\* LineRef::is_solvable panics where the same slack arithmetic panics
is_solvable_panics(line, c, overflow_checks) ==
    Len(c) # 0 /\ slack_panics(line, c, overflow_checks)

\* LineRef::is_solvable, where it returns
is_solvable(line, c) ==
    IF Len(c) = 0
    THEN \A i \in 0..(size(line) - 1) : get_cell(line, i) # Filled
    ELSE LET h == num_nodes_height(line, c)
             nodelist == solvable_sweep(Len(c) - 2,
                             make_node_list(line, c, h), line, c, h)
         IN  \E j \in 0..(h - 1) : nodelist[0][j]

\* LineRef::generate_new_constraints of a completed line: the lengths of its
\* maximal runs of Filled cells, left to right
RECURSIVE scan_runs(_, _, _, _)
scan_runs(line, i, n, ret) ==
    IF i = size(line)
    THEN (IF n > 0 THEN Append(ret, n) ELSE ret)
    ELSE IF get_cell(line, i) = Filled
    THEN scan_runs(line, i + 1, n + 1, ret)
    ELSE IF n > 0
    THEN scan_runs(line, i + 1, 0, Append(ret, n))
    ELSE scan_runs(line, i + 1, 0, ret)

generate_new_constraints(line) == scan_runs(line, 0, 0, << >>)

\* -------------------------------------------------------------- solver.rs
\* enum LineType
Row == "Row"
Column == "Column"

\* struct LineInfo
LineInfo(index, linetype) == [index |-> index, linetype |-> linetype]

\* an order of LineType with Column < Row
LineTypeRank_column_first(t) == IF t = Row THEN 1 ELSE 0

\* derived Ord of LineType: Row < Column
LineTypeRank(t) == IF t = Row THEN 0 ELSE 1

\* derived Ord of LineInfo: by index, then by linetype
LineInfoLess(x, y) ==
    \/ x.index < y.index
    \/ x.index = y.index /\ LineTypeRank(x.linetype) < LineTypeRank(y.linetype)

\* ---------------------------------------------------------------- util.rs
\* PrioritySet::new
PrioritySet_new == << >>

\* PrioritySet::len
PrioritySet_len(elements) == Cardinality(DOMAIN elements)

\* PrioritySet::insert that resets the priority of a present key
PrioritySet_insert_resets(elements, v) ==
    (v :> 1) @@ elements

\* PrioritySet::insert: entry(value).or_insert(0), then += 1
PrioritySet_insert(elements, v) ==
    IF v \in DOMAIN elements
    THEN [elements EXCEPT ![v] = @ + 1]
    ELSE (v :> 1) @@ elements

\* PrioritySet::insert_with_priority: entry(value).or_insert(0), then = p
PrioritySet_insert_with_priority(elements, v, p) ==
    IF v \in DOMAIN elements
    THEN [elements EXCEPT ![v] = p]
    ELSE (v :> p) @@ elements

\* PrioritySet::pop, the key taken: the maximum by priority, then by key
PrioritySet_top(elements) ==
    CHOOSE k \in DOMAIN elements :
        \A o \in DOMAIN elements \ {k} :
            \/ elements[o] < elements[k]
            \/ elements[o] = elements[k] /\ LineInfoLess(o, k)

\* PrioritySet::pop, the map left behind
PrioritySet_remove(elements, k) ==
    [x \in DOMAIN elements \ {k} |-> elements[x]]

\* Option<LineInfo>::None
NoKey == [index |-> -1, linetype |-> "None"]

\* PrioritySet::pop: the value returned and the map afterwards
PrioritySet_pop(elements) ==
    IF DOMAIN elements = {}
    THEN [ret |-> NoKey, elements |-> elements]
    ELSE LET k == PrioritySet_top(elements)
         IN  [ret |-> k, elements |-> PrioritySet_remove(elements, k)]

\* -------------------------------------------------------- board.rs, Board
\* Board::get_index
get_index(brd, col, row) == col + row * brd.width

\* Board::get_coordinate
get_coordinate(brd, index) ==
    [col |-> index % brd.width, row |-> index \div brd.width]

\* Board::get_cell_index
get_cell_index(brd, index) == brd.cells[index + 1]

\* Board::set_cell_index that writes nothing
set_cell_index_no_write(brd, index, v) == brd

\* Board::set_cell_index
set_cell_index(brd, index, v) == [brd EXCEPT !.cells[index + 1] = v]

\* Board::get_num_cells
get_num_cells(brd) == brd.width * brd.height

\* the cells BoardRowRef / BoardColRef give access to, as a line
get_line(brd, lineid) ==
    IF lineid.linetype = Row
    THEN [x \in 1..brd.width |->
             brd.cells[get_index(brd, x - 1, lineid.index) + 1]]
    ELSE [y \in 1..brd.height |->
             brd.cells[get_index(brd, lineid.index, y - 1) + 1]]

\* LineRef::get_constraints of a board row or column
line_constraints(brd, lineid) ==
    IF lineid.linetype = Row
    THEN brd.row_constraints[lineid.index + 1]
    ELSE brd.col_constraints[lineid.index + 1]

\* the board after BoardRowMut / BoardColMut::set_cell wrote the line l
set_line(brd, lineid, l) ==
    [brd EXCEPT !.cells =
        [n \in 1..Len(brd.cells) |->
            LET at == get_coordinate(brd, n - 1)
            IN  IF lineid.linetype = Row /\ at.row = lineid.index
                THEN l[at.col + 1]
                ELSE IF lineid.linetype = Column /\ at.col = lineid.index
                THEN l[at.row + 1]
                ELSE brd.cells[n]]]

\* Board::read_csv_puzzle: every cell Unknown
new_board(puzzle) ==
    [width |-> puzzle.width, height |-> puzzle.height,
     cells |-> [n \in 1..(puzzle.width * puzzle.height) |-> Unknown],
     row_constraints |-> puzzle.row_constraints,
     col_constraints |-> puzzle.col_constraints]

\* ------------------------------------------------------ solver.rs, solver
\* BoardMeta::new
BoardMeta_new(width, height) ==
    [num_unsolved |-> width * height,
     unsolved_per_row |-> [r \in 1..height |-> width],
     unsolved_per_column |-> [c \in 1..width |-> height]]

\* BoardMeta::solve without the decrement of the column's count
BoardMeta_solve_row_only(m, col, row) ==
    [num_unsolved |-> m.num_unsolved - 1,
     unsolved_per_row |-> [m.unsolved_per_row EXCEPT ![row + 1] = @ - 1],
     unsolved_per_column |-> m.unsolved_per_column]

\* BoardMeta::solve
BoardMeta_solve(m, col, row) ==
    [num_unsolved |-> m.num_unsolved - 1,
     unsolved_per_row |-> [m.unsolved_per_row EXCEPT ![row + 1] = @ - 1],
     unsolved_per_column |-> [m.unsolved_per_column EXCEPT ![col + 1] = @ - 1]]

\* is_row_solved always true
is_line_solved_rows_done(m, lineid) ==
    IF lineid.linetype = Row
    THEN TRUE
    ELSE m.unsolved_per_column[lineid.index + 1] = 0

\* BoardMeta::is_row_solved / is_column_solved
is_line_solved(m, lineid) ==
    IF lineid.linetype = Row
    THEN m.unsolved_per_row[lineid.index + 1] = 0
    ELSE m.unsolved_per_column[lineid.index + 1] = 0

\* the line crossing lineid at its cell x
crossing(lineid, x) ==
    LineInfo(x, IF lineid.linetype = Row THEN Column ELSE Row)

RECURSIVE feed_changes_unchecked(_, _, _, _, _, _, _)
\* feed_changes without the is_solvable test of the crossing line
feed_changes_unchecked(v, n, brd, lineid, m, ts, oc) ==
    IF n > Len(v)
    THEN [status |-> "Continue", meta |-> m, to_solve |-> ts]
    ELSE LET cross == crossing(lineid, v[n])
             m2 == IF lineid.linetype = Row
                   THEN BoardMeta_solve(m, v[n], lineid.index)
                   ELSE BoardMeta_solve(m, lineid.index, v[n])
             ts2 == IF ~is_line_solved(m2, cross)
                    THEN PrioritySet_insert(ts, cross) ELSE ts
         IN  feed_changes_unchecked(v, n + 1, brd, lineid, m2, ts2, oc)

RECURSIVE feed_changes(_, _, _, _, _, _, _)
\* stupid_solver_set, the loop over the cells v[n..] the line solve changed:
\* the crossing line must still be solvable, the cell is marked solved, and
\* the crossing line is queued unless it is solved
feed_changes(v, n, brd, lineid, m, ts, oc) ==
    IF n > Len(v)
    THEN [status |-> "Continue", meta |-> m, to_solve |-> ts]
    ELSE LET cross == crossing(lineid, v[n])
             cl == get_line(brd, cross)
             cc == line_constraints(brd, cross)
         IN  IF is_solvable_panics(cl, cc, oc)
             THEN [status |-> "Panic", meta |-> m, to_solve |-> ts]
             ELSE IF ~is_solvable(cl, cc)
             THEN [status |-> "Contradiction", meta |-> m, to_solve |-> ts]
             ELSE LET m2 == IF lineid.linetype = Row
                            THEN BoardMeta_solve(m, v[n], lineid.index)
                            ELSE BoardMeta_solve(m, lineid.index, v[n])
                      ts2 == IF ~is_line_solved(m2, cross)
                             THEN PrioritySet_insert(ts, cross) ELSE ts
                  IN  feed_changes(v, n + 1, brd, lineid, m2, ts2, oc)

\* solver_set_iteration returning Success while one cell is still unsolved
solver_set_iteration_early(brd, m, ts, oc) ==
    LET lineid == PrioritySet_top(ts)
        ts1 == PrioritySet_remove(ts, lineid)
    IN  IF is_line_solved(m, lineid)
        THEN [status |-> "Continue", b |-> brd, meta |-> m, to_solve |-> ts1]
        ELSE LET r == try_solve_line_complete(get_line(brd, lineid),
                          line_constraints(brd, lineid), oc)
                 b1 == set_line(brd, lineid, r.line)
             IN  IF r.status = "Panic"
                 THEN [status |-> "Panic", b |-> brd, meta |-> m, to_solve |-> ts1]
                 ELSE IF r.status = "None"
                 THEN [status |-> "Contradiction", b |-> b1, meta |-> m,
                       to_solve |-> ts1]
                 ELSE LET f == feed_changes(r.ret, 1, b1, lineid, m, ts1, oc)
                      IN  [status |-> IF f.status = "Continue"
                                         /\ f.meta.num_unsolved <= 1
                                      THEN "Success" ELSE f.status,
                           b |-> b1, meta |-> f.meta, to_solve |-> f.to_solve]

\* stupid_solver_set, one pass through the body of its while loop. status
\* Continue goes back to the loop test, Success and Contradiction are the
\* returns inside the loop, Panic is a panic of the line solver.
solver_set_iteration(brd, m, ts, oc) ==
    LET lineid == PrioritySet_top(ts)
        ts1 == PrioritySet_remove(ts, lineid)
    IN  IF is_line_solved(m, lineid)
        THEN [status |-> "Continue", b |-> brd, meta |-> m, to_solve |-> ts1]
        ELSE LET r == try_solve_line_complete(get_line(brd, lineid),
                          line_constraints(brd, lineid), oc)
                 b1 == set_line(brd, lineid, r.line)
             IN  IF r.status = "Panic"
                 THEN [status |-> "Panic", b |-> brd, meta |-> m, to_solve |-> ts1]
                 ELSE IF r.status = "None"
                 THEN [status |-> "Contradiction", b |-> b1, meta |-> m,
                       to_solve |-> ts1]
                 ELSE LET f == feed_changes(r.ret, 1, b1, lineid, m, ts1, oc)
                      IN  [status |-> IF f.status = "Continue"
                                         /\ f.meta.num_unsolved = 0
                                      THEN "Success" ELSE f.status,
                           b |-> b1, meta |-> f.meta, to_solve |-> f.to_solve]

RECURSIVE seed_lines(_, _, _, _)
\* stupid_branched_solver_set: insert the lines from..n-1 of one type
seed_lines(ts, linetype, from, n) ==
    IF from >= n THEN ts
    ELSE seed_lines(PrioritySet_insert(ts, LineInfo(from, linetype)),
                    linetype, from + 1, n)

\* first_unknown taking the last Unknown cell instead of the first
first_unknown_last(brd) ==
    LET unknown == {i \in 0..(get_num_cells(brd) - 1) :
                        get_cell_index(brd, i) = Unknown}
    IN  IF unknown = {} THEN -1
        ELSE CHOOSE i \in unknown : \A j \in unknown : i >= j

\* (0..b.get_num_cells()).find(|i| b.get_cell_index(*i) == Cell::Unknown);
\* -1 stands for None
first_unknown(brd) ==
    LET unknown == {i \in 0..(get_num_cells(brd) - 1) :
                        get_cell_index(brd, i) = Unknown}
    IN  IF unknown = {} THEN -1
        ELSE CHOOSE i \in unknown : \A j \in unknown : i <= j

RECURSIVE check_crossing(_, _, _, _, _)
\* stupid_solver, the loop over the cells v[n..] a line solve changed: the
\* crossing line must still be solvable
check_crossing(v, n, brd, lineid, oc) ==
    IF n > Len(v) THEN "Continue"
    ELSE LET cross == crossing(lineid, v[n])
             cl == get_line(brd, cross)
             cc == line_constraints(brd, cross)
         IN  IF is_solvable_panics(cl, cc, oc) THEN "Panic"
             ELSE IF ~is_solvable(cl, cc) THEN "Contradiction"
             ELSE check_crossing(v, n + 1, brd, lineid, oc)

RECURSIVE solve_lines(_, _, _, _, _, _, _)
\* stupid_solver, one of its two for loops from line i on: solve each line of
\* the type in turn, check the lines crossing the changed cells, and count
\* the changed cells
solve_lines(brd, linetype, i, n, solved_this_round, tiles_to_solve, oc) ==
    IF i >= n
    THEN [status |-> "Continue", b |-> brd,
          solved_this_round |-> solved_this_round,
          tiles_to_solve |-> tiles_to_solve]
    ELSE LET lineid == LineInfo(i, linetype)
             r == try_solve_line_complete(get_line(brd, lineid),
                      line_constraints(brd, lineid), oc)
             b1 == set_line(brd, lineid, r.line)
             done(st, bd) == [status |-> st, b |-> bd,
                              solved_this_round |-> solved_this_round,
                              tiles_to_solve |-> tiles_to_solve]
         IN  IF r.status = "Panic" THEN done("Panic", brd)
             ELSE IF r.status = "None" THEN done("Contradiction", b1)
             ELSE LET c == check_crossing(r.ret, 1, b1, lineid, oc)
                  IN  IF c # "Continue" THEN done(c, b1)
                      ELSE solve_lines(b1, linetype, i + 1, n,
                                       solved_this_round + Len(r.ret),
                                       tiles_to_solve - Len(r.ret), oc)

RECURSIVE solver_rounds(_, _, _, _)
\* stupid_solver, its while loop: rounds over all columns and then all rows
\* until a round changes nothing or no cell is left; status None is the
\* return for a board that is stuck
solver_rounds(brd, solved_this_round, tiles_to_solve, oc) ==
    IF ~(solved_this_round > 0 /\ tiles_to_solve > 0)
    THEN [status |-> IF tiles_to_solve = 0 THEN "Success" ELSE "None",
          b |-> brd]
    ELSE LET cols == solve_lines(brd, Column, 0, brd.width, 0,
                                 tiles_to_solve, oc)
         IN  IF cols.status # "Continue"
             THEN [status |-> cols.status, b |-> cols.b]
             ELSE LET rows == solve_lines(cols.b, Row, 0, brd.height,
                                  cols.solved_this_round,
                                  cols.tiles_to_solve, oc)
                  IN  IF rows.status # "Continue"
                      THEN [status |-> rows.status, b |-> rows.b]
                      ELSE solver_rounds(rows.b, rows.solved_this_round,
                                         rows.tiles_to_solve, oc)

\* stupid_solver: the round-robin propagation
stupid_solver(brd, oc) ==
    solver_rounds(brd, 1,
        Cardinality({i \in 0..(get_num_cells(brd) - 1) :
                        get_cell_index(brd, i) = Unknown}), oc)

RECURSIVE stupid_branched_solver(_, _)
\* stupid_branched_solver: the round-robin propagation, and where it is
\* stuck the first Unknown cell tried Empty and then Filled on clones of the
\* board; b is the caller's board afterwards
stupid_branched_solver(brd, oc) ==
    LET r == stupid_solver(brd, oc)
    IN  IF r.status # "None"
        THEN [status |-> r.status, b |-> r.b, nbranches |-> 1]
        ELSE LET index == first_unknown(r.b)
             IN  IF index = -1
                 THEN [status |-> "Panic", b |-> r.b, nbranches |-> 1]
                 ELSE LET e == stupid_branched_solver(
                                   set_cell_index(r.b, index, Empty), oc)
                      IN  IF e.status = "Panic"
                          THEN [status |-> "Panic", b |-> r.b,
                                nbranches |-> 1 + e.nbranches]
                          ELSE IF e.status = "Success"
                          THEN [status |-> "Success", b |-> e.b,
                                nbranches |-> 1 + e.nbranches]
                          ELSE LET f == stupid_branched_solver(
                                            set_cell_index(r.b, index, Filled), oc)
                               IN  [status |-> f.status,
                                    b |-> IF f.status = "Success"
                                          THEN f.b ELSE r.b,
                                    nbranches |-> 1 + e.nbranches + f.nbranches]

\* the row and the column of the cell index, as _stupid_branched_solver_set
\* inserts them into to_solve for the pivot
pivot_lines(brd, index) ==
    LET at == get_coordinate(brd, index)
    IN  {LineInfo(at.row, Row), LineInfo(at.col, Column)}

\* empty_child giving the first child the pivot Filled
empty_child_filled(brd, index) == set_cell_index(brd, index, Filled)

\* let mut new_board = b.clone(); new_board.set_cell_index(index, Cell::Empty)
empty_child(brd, index) == set_cell_index(brd, index, Empty)

\* let mut new_board = b.clone(); new_board.set_cell_index(index, Cell::Filled)
filled_child(brd, index) == set_cell_index(brd, index, Filled)

\* ------------------------------------------------------------------ state
VARIABLES
    overflow_checks, \* whether the build panics on integer overflow
    line,            \* StandaloneLine.data of the line under test
    cons,            \* StandaloneLine.constraints of the line under test
    entry,           \* the line's cells on entry to the latest call
    result,          \* what the latest try_solve_line_complete returned
    feasible,        \* what is_solvable returned for the line
    lpc,             \* position of the line-level caller
    b,               \* Board of the call of the search that is running
    meta,            \* its BoardMeta
    to_solve,        \* its PrioritySet<LineInfo>.elements
    stack,           \* suspended calls of _stupid_branched_solver_set
    pc,              \* position of the search
    value,           \* SolveResult being returned
    n_branches,      \* the branch counter
    unpopped,        \* the pivot's lines the running call has not popped yet
    q_before,        \* the queue under test before its latest operation
    q_op,            \* that operation and its arguments
    q_ret            \* what that operation returned

line_vars == <<line, cons, entry, result, feasible, lpc>>
board_vars == <<b, meta, to_solve, stack, pc, value, n_branches, unpopped>>
queue_vars == <<q_before, q_op, q_ret>>
vars == <<overflow_checks, line, cons, entry, result, feasible, lpc,
          b, meta, to_solve, stack, pc, value, n_branches, unpopped,
          q_before, q_op, q_ret>>

\* ----------------------------------------------------- line-level inputs
\* constraint lists of at most MaxCons runs of at most MaxRun cells
ConstraintLists == UNION {[1..n -> 1..MaxRun] : n \in 0..MaxCons}

\* the constraint lists the long lines are solved against
LongCons == {<<2, 2>>, <<1, 2>>}

Lines(L) == [1..L -> Cell]

LineInputs ==
    ((UNION {Lines(L) : L \in 1..MaxLen}) \X ConstraintLists)
        \cup (Lines(LongLen) \X LongCons)

NoResult == [status |-> "NotCalled", ret |-> << >>]

NoBoard == [width |-> 0, height |-> 0, cells |-> << >>,
            row_constraints |-> << >>, col_constraints |-> << >>]
NoMeta == [num_unsolved |-> 0, unsolved_per_row |-> << >>,
           unsolved_per_column |-> << >>]

\* no operation on the queue under test yet
NoOp == [name |-> "new", key |-> NoKey, p |-> 0]

\* a StandaloneLine with its constraints, before any call
InitLine ==
    /\ overflow_checks \in BOOLEAN
    /\ \E in \in LineInputs : line = in[1] /\ cons = in[2]
    /\ entry = line
    /\ result = NoResult
    /\ feasible = "NotCalled"
    /\ lpc = "start"
    /\ b = NoBoard
    /\ meta = NoMeta
    /\ to_solve = << >>
    /\ stack = << >>
    /\ pc = "idle"
    /\ value = "Pending"
    /\ n_branches = 0
    /\ unpopped = {}
    /\ q_before = PrioritySet_new
    /\ q_op = NoOp
    /\ q_ret = NoKey

\* line.is_solvable(), which leaves the line as it is; a panic ends the run
CallIsSolvable ==
    /\ lpc = "start"
    /\ feasible = "NotCalled"
    /\ feasible' = IF is_solvable_panics(line, cons, overflow_checks) THEN "panic"
                   ELSE IF is_solvable(line, cons) THEN "true" ELSE "false"
    /\ UNCHANGED <<overflow_checks, line, cons, entry, result, lpc>>
    /\ UNCHANGED board_vars
    /\ UNCHANGED queue_vars

\* line.try_solve_line_complete()
CallSolve ==
    /\ lpc = "start"
    /\ feasible # "panic"
    /\ LET r == try_solve_line_complete(line, cons, overflow_checks)
       IN  /\ entry' = line
           /\ line' = r.line
           /\ result' = [status |-> r.status, ret |-> r.ret]
    /\ lpc' = "solved"
    /\ UNCHANGED <<overflow_checks, cons, feasible>>
    /\ UNCHANGED board_vars
    /\ UNCHANGED queue_vars

\* a second line.try_solve_line_complete() right after a successful one
CallSolveAgain ==
    /\ lpc = "solved"
    /\ result.status = "Some"
    /\ LET r == try_solve_line_complete(line, cons, overflow_checks)
       IN  /\ entry' = line
           /\ line' = r.line
           /\ result' = [status |-> r.status, ret |-> r.ret]
    /\ lpc' = "again"
    /\ UNCHANGED <<overflow_checks, cons, feasible>>
    /\ UNCHANGED board_vars
    /\ UNCHANGED queue_vars

NextLine == CallIsSolvable \/ CallSolve \/ CallSolveAgain

SpecLine == InitLine /\ [][NextLine]_vars

\* ---------------------------------------------------- board-level inputs
\* the constraint lists that fit a line of L cells
FittingLists(L) ==
    {c \in UNION {[1..n -> 1..L] : n \in 0..((L + 1) \div 2)} :
        c_sum(c) + Len(c) - 1 <= L}

\* two constraint lists that do not fit a line of L cells, with slack -1
\* and slack -2
TooLongLists(L) == {<<L + 1>>, <<L, 1>>}

Puzzle(W, H, rows, cols) ==
    [width |-> W, height |-> H, row_constraints |-> rows,
     col_constraints |-> cols]

\* which line, if any, of a small puzzle gets a list that does not fit:
\* none, or <<linetype, index, list>> with a 1-based index
Misfits(W, H) ==
    {<<"fitting", 0, << >>>>}
        \cup ({Row} \X (1..H) \X TooLongLists(W))
        \cup ({Column} \X (1..W) \X TooLongLists(H))

\* the constraint lists to choose from for line i of n lines of length L
ListsFor(linetype, i, L, misfit) ==
    IF misfit[1] = linetype /\ misfit[2] = i
    THEN {misfit[3]} ELSE FittingLists(L)

\* the row and the column constraints of the small puzzles of W x H cells
\* with the given misfit
SmallRows(W, H, misfit) ==
    {r \in [1..H -> FittingLists(W) \cup TooLongLists(W)] :
        \A i \in 1..H : r[i] \in ListsFor(Row, i, W, misfit)}
SmallCols(W, H, misfit) ==
    {c \in [1..W -> FittingLists(H) \cup TooLongLists(H)] :
        \A i \in 1..W : c[i] \in ListsFor(Column, i, H, misfit)}

\* the 5x5 puzzle of the specification's scenario 5
Scenario5 ==
    Puzzle(5, 5, [r \in 1..5 |-> <<1, 1, 1>>],
           <<(<<5>>), (<<1>>), (<<5>>), (<<1>>), (<<5>>)>>)

\* the 5x5 puzzle whose solution is the board scenario 5 describes
Stripes ==
    Puzzle(5, 5, [r \in 1..5 |-> <<1, 1, 1>>],
           <<(<<5>>), (<< >>), (<<5>>), (<< >>), (<<5>>)>>)

\* larger puzzles that make the search branch: both children fail; three
\* levels of branching; the Filled child succeeds; a queued line is solved
\* by its crossing lines before it is popped; four levels of branching; a
\* pivot's line is solved by its crossing lines before it is popped
LargerPuzzles ==
    {Scenario5, Stripes,
     Puzzle(3, 3, <<(<< >>), (<<1>>), (<<1>>)>>, <<(<<1>>), (<<1>>), (<<1>>)>>),
     Puzzle(3, 3, <<(<<1>>), (<<1>>), (<<1>>)>>, <<(<<1>>), (<<1>>), (<<1>>)>>),
     Puzzle(3, 4, <<(<<1>>), (<<1>>), (<<1>>), (<<1>>)>>,
                  <<(<< >>), (<<1, 1>>), (<<2>>)>>),
     Puzzle(3, 4, <<(<< >>), (<<1>>), (<< >>), (<<2>>)>>,
                  <<(<< >>), (<<1>>), (<<1, 1>>)>>),
     Puzzle(3, 4, <<(<<1>>), (<<1>>), (<<1>>), (<<1>>)>>,
                  <<(<<1>>), (<<1>>), (<<1, 1>>)>>),
     Puzzle(3, 4, <<(<<1>>), (<<1>>), (<<1>>), (<<2>>)>>,
                  <<(<<1>>), (<<1, 1>>), (<<1, 1>>)>>)}

\* ------------------------------------------------------ the branching search
\* the board as read from a puzzle file, before stupid_branched_solver_set:
\* one of the larger puzzles, or any puzzle of at most MaxW x MaxH cells
\* whose constraint lists fit, but for at most one
Init ==
    /\ overflow_checks \in BOOLEAN
    /\ \/ \E p \in LargerPuzzles : b = new_board(p)
       \/ \E W \in 1..MaxW, H \in 1..MaxH :
             \E misfit \in Misfits(W, H) :
                \E r \in SmallRows(W, H, misfit), c \in SmallCols(W, H, misfit) :
                    b = new_board(Puzzle(W, H, r, c))
    /\ meta = NoMeta
    /\ to_solve = PrioritySet_new
    /\ stack = << >>
    /\ pc = "start"
    /\ value = "Pending"
    /\ n_branches = 0
    /\ unpopped = {}
    /\ q_before = PrioritySet_new
    /\ q_op = NoOp
    /\ q_ret = NoKey
    /\ line = << >>
    /\ cons = << >>
    /\ entry = << >>
    /\ result = NoResult
    /\ feasible = "NotCalled"
    /\ lpc = "idle"

\* stupid_branched_solver_set up to the call of _stupid_branched_solver_set,
\* and that call's inc_maybe_print
Begin ==
    /\ pc = "start"
    /\ meta' = BoardMeta_new(b.width, b.height)
    /\ to_solve' = seed_lines(seed_lines(PrioritySet_new, Column, 0, b.width),
                              Row, 0, b.height)
    /\ n_branches' = 1
    /\ pc' = "solving"
    /\ UNCHANGED <<overflow_checks, b, stack, value, unpopped>>
    /\ UNCHANGED line_vars
    /\ UNCHANGED queue_vars

\* SolverSetStep that pops the line but queues no crossing line
SolverSetStep_no_requeue ==
    /\ pc = "solving"
    /\ PrioritySet_len(to_solve) > 0
    /\ LET r == solver_set_iteration(b, meta, to_solve, overflow_checks)
       IN  /\ b' = r.b
           /\ meta' = r.meta
           /\ to_solve' = PrioritySet_remove(to_solve, PrioritySet_top(to_solve))
           /\ pc' = IF r.status = "Continue" THEN "solving"
                    ELSE IF r.status = "Panic" THEN "panicked"
                    ELSE "returning"
           /\ value' = IF r.status \in {"Success", "Contradiction"}
                       THEN r.status ELSE value
    /\ unpopped' = unpopped \ {PrioritySet_top(to_solve)}
    /\ UNCHANGED <<overflow_checks, stack, n_branches>>
    /\ UNCHANGED line_vars
    /\ UNCHANGED queue_vars

\* stupid_solver_set: one iteration of while to_solve.len() > 0
SolverSetStep ==
    /\ pc = "solving"
    /\ PrioritySet_len(to_solve) > 0
    /\ LET r == solver_set_iteration(b, meta, to_solve, overflow_checks)
       IN  /\ b' = r.b
           /\ meta' = r.meta
           /\ to_solve' = r.to_solve
           /\ pc' = IF r.status = "Continue" THEN "solving"
                    ELSE IF r.status = "Panic" THEN "panicked"
                    ELSE "returning"
           /\ value' = IF r.status \in {"Success", "Contradiction"}
                       THEN r.status ELSE value
    /\ unpopped' = unpopped \ {PrioritySet_top(to_solve)}
    /\ UNCHANGED <<overflow_checks, stack, n_branches>>
    /\ UNCHANGED line_vars
    /\ UNCHANGED queue_vars

\* SolverSetDrained keeping for the Filled child the queue as it was before the
\* pivot's row and column were inserted
SolverSetDrained_stale_queue ==
    /\ pc = "solving"
    /\ PrioritySet_len(to_solve) = 0
    /\ IF meta.num_unsolved = 0
       THEN /\ pc' = "returning"
            /\ value' = "Success"
            /\ UNCHANGED <<b, meta, to_solve, stack, n_branches, unpopped>>
       ELSE LET index == first_unknown(b)
            IN  IF index = -1
                THEN /\ pc' = "panicked"
                     /\ UNCHANGED <<b, meta, to_solve, stack, n_branches, value,
                                    unpopped>>
                ELSE LET at == get_coordinate(b, index)
                         ts == PrioritySet_insert(
                                   PrioritySet_insert(to_solve, LineInfo(at.row, Row)),
                                   LineInfo(at.col, Column))
                         m == BoardMeta_solve(meta, at.col, at.row)
                     IN  /\ stack' = Append(stack,
                                [b |-> b, meta |-> m, to_solve |-> to_solve,
                                 index |-> index, child |-> Empty])
                         /\ b' = empty_child(b, index)
                         /\ unpopped' = pivot_lines(b, index)
                         /\ meta' = m
                         /\ to_solve' = ts
                         /\ n_branches' = n_branches + 1
                         /\ pc' = "solving"
                         /\ UNCHANGED value
    /\ UNCHANGED overflow_checks
    /\ UNCHANGED line_vars
    /\ UNCHANGED queue_vars

\* stupid_solver_set leaves its loop with the queue empty: Success if
\* nothing is unsolved; otherwise None, and _stupid_branched_solver_set takes
\* the first Unknown cell as pivot, queues its row and column, marks it
\* solved and calls itself on a clone of the board with the pivot Empty and
\* on clones of meta and to_solve
SolverSetDrained ==
    /\ pc = "solving"
    /\ PrioritySet_len(to_solve) = 0
    /\ IF meta.num_unsolved = 0
       THEN /\ pc' = "returning"
            /\ value' = "Success"
            /\ UNCHANGED <<b, meta, to_solve, stack, n_branches, unpopped>>
       ELSE LET index == first_unknown(b)
            IN  IF index = -1
                THEN /\ pc' = "panicked"
                     /\ UNCHANGED <<b, meta, to_solve, stack, n_branches, value,
                                    unpopped>>
                ELSE LET at == get_coordinate(b, index)
                         ts == PrioritySet_insert(
                                   PrioritySet_insert(to_solve, LineInfo(at.row, Row)),
                                   LineInfo(at.col, Column))
                         m == BoardMeta_solve(meta, at.col, at.row)
                     IN  /\ stack' = Append(stack,
                                [b |-> b, meta |-> m, to_solve |-> ts,
                                 index |-> index, child |-> Empty])
                         /\ b' = empty_child(b, index)
                         /\ unpopped' = pivot_lines(b, index)
                         /\ meta' = m
                         /\ to_solve' = ts
                         /\ n_branches' = n_branches + 1
                         /\ pc' = "solving"
                         /\ UNCHANGED value
    /\ UNCHANGED overflow_checks
    /\ UNCHANGED line_vars
    /\ UNCHANGED queue_vars

\* ChildReturns without the mem::swap of the child's board into the caller's
ChildReturns_no_swap ==
    /\ pc = "returning"
    /\ stack # << >>
    /\ LET frame == stack[Len(stack)]
           rest == SubSeq(stack, 1, Len(stack) - 1)
       IN  IF value = "Success"
           THEN /\ stack' = rest
                /\ b' = frame.b
                /\ unpopped' = {}
                /\ UNCHANGED <<meta, to_solve, pc, value, n_branches>>
           ELSE IF frame.child = Empty
           THEN /\ stack' = Append(rest, [frame EXCEPT !.child = Filled])
                /\ b' = filled_child(frame.b, frame.index)
                /\ unpopped' = pivot_lines(frame.b, frame.index)
                /\ meta' = frame.meta
                /\ to_solve' = frame.to_solve
                /\ n_branches' = n_branches + 1
                /\ pc' = "solving"
                /\ value' = "Pending"
           ELSE /\ stack' = rest
                /\ b' = frame.b
                /\ unpopped' = {}
                /\ UNCHANGED <<meta, to_solve, pc, value, n_branches>>
    /\ UNCHANGED overflow_checks
    /\ UNCHANGED line_vars
    /\ UNCHANGED queue_vars

\* a recursive call of _stupid_branched_solver_set returns to its caller:
\* on Success the caller swaps the child's board into its own and returns
\* Success; after a failed Empty child it calls itself on a clone of its
\* board with the pivot Filled and on its own meta and to_solve; after a
\* failed Filled child it returns Contradiction
ChildReturns ==
    /\ pc = "returning"
    /\ stack # << >>
    /\ LET frame == stack[Len(stack)]
           rest == SubSeq(stack, 1, Len(stack) - 1)
       IN  IF value = "Success"
           THEN /\ stack' = rest
                /\ unpopped' = {}
                /\ UNCHANGED <<b, meta, to_solve, pc, value, n_branches>>
           ELSE IF frame.child = Empty
           THEN /\ stack' = Append(rest, [frame EXCEPT !.child = Filled])
                /\ b' = filled_child(frame.b, frame.index)
                /\ unpopped' = pivot_lines(frame.b, frame.index)
                /\ meta' = frame.meta
                /\ to_solve' = frame.to_solve
                /\ n_branches' = n_branches + 1
                /\ pc' = "solving"
                /\ value' = "Pending"
           ELSE /\ stack' = rest
                /\ b' = frame.b
                /\ unpopped' = {}
                /\ UNCHANGED <<meta, to_solve, pc, value, n_branches>>
    /\ UNCHANGED overflow_checks
    /\ UNCHANGED line_vars
    /\ UNCHANGED queue_vars

\* the outermost call returns to stupid_branched_solver_set, which returns
\* (value, n_branches)
RootReturns ==
    /\ pc = "returning"
    /\ stack = << >>
    /\ pc' = "done"
    /\ UNCHANGED <<overflow_checks, b, meta, to_solve, stack, value, n_branches,
                   unpopped>>
    /\ UNCHANGED line_vars
    /\ UNCHANGED queue_vars

Next == Begin \/ SolverSetStep \/ SolverSetDrained \/ ChildReturns \/ RootReturns

Spec == Init /\ [][Next]_vars

\* ------------------------------------------------ the work queue alone
\* the lines of a board of MaxW x MaxH cells
QueueKeys ==
    {LineInfo(i, Row) : i \in 0..(MaxH - 1)}
        \cup {LineInfo(i, Column) : i \in 0..(MaxW - 1)}

\* a PrioritySet<LineInfo> fresh from PrioritySet::new
InitQueue ==
    /\ overflow_checks = FALSE
    /\ line = << >>
    /\ cons = << >>
    /\ entry = << >>
    /\ result = NoResult
    /\ feasible = "NotCalled"
    /\ lpc = "idle"
    /\ b = NoBoard
    /\ meta = NoMeta
    /\ to_solve = PrioritySet_new
    /\ stack = << >>
    /\ pc = "idle"
    /\ value = "Pending"
    /\ n_branches = 0
    /\ unpopped = {}
    /\ q_before = PrioritySet_new
    /\ q_op = NoOp
    /\ q_ret = NoKey

\* to_solve.insert(k); priorities are capped at MaxPriority
QueueInsert ==
    /\ \E k \in QueueKeys :
          /\ k \in DOMAIN to_solve => to_solve[k] < MaxPriority
          /\ to_solve' = PrioritySet_insert(to_solve, k)
          /\ q_op' = [name |-> "insert", key |-> k, p |-> 0]
    /\ q_before' = to_solve
    /\ q_ret' = NoKey
    /\ UNCHANGED <<overflow_checks, b, meta, stack, pc, value, n_branches,
                   unpopped>>
    /\ UNCHANGED line_vars

\* to_solve.insert_with_priority(k, p)
QueueInsertWithPriority ==
    /\ \E k \in QueueKeys, p \in 0..MaxPriority :
          /\ to_solve' = PrioritySet_insert_with_priority(to_solve, k, p)
          /\ q_op' = [name |-> "insert_with_priority", key |-> k, p |-> p]
    /\ q_before' = to_solve
    /\ q_ret' = NoKey
    /\ UNCHANGED <<overflow_checks, b, meta, stack, pc, value, n_branches,
                   unpopped>>
    /\ UNCHANGED line_vars

\* to_solve.pop()
QueuePop ==
    /\ LET r == PrioritySet_pop(to_solve)
       IN  /\ to_solve' = r.elements
           /\ q_ret' = r.ret
    /\ q_op' = [name |-> "pop", key |-> NoKey, p |-> 0]
    /\ q_before' = to_solve
    /\ UNCHANGED <<overflow_checks, b, meta, stack, pc, value, n_branches,
                   unpopped>>
    /\ UNCHANGED line_vars

NextQueue == QueueInsert \/ QueueInsertWithPriority \/ QueuePop

SpecQueue == InitQueue /\ [][NextQueue]_vars

\* ------------------------------------------- placements, by enumeration
\* start positions of the runs of c in a line of L cells: every run inside
\* the line, consecutive runs at least one cell apart
Starts(c, L) ==
    {st \in [1..Len(c) -> 0..(L - 1)] :
        /\ \A i \in 1..Len(c) : st[i] + c[i] <= L
        /\ \A i \in 1..(Len(c) - 1) : st[i] + c[i] + 1 <= st[i + 1]}

\* the complete line of a placement
PlacementLine(st, c, L) ==
    [p \in 1..L |->
        IF \E i \in 1..Len(c) : st[i] <= p - 1 /\ p - 1 < st[i] + c[i]
        THEN Filled ELSE Empty]

\* the placements of c that agree with every determined cell of l
ConsistentPlacements(l, c) ==
    {pl \in {PlacementLine(st, c, Len(l)) : st \in Starts(c, Len(l))} :
        \A p \in 1..Len(l) : l[p] = Unknown \/ l[p] = pl[p]}

\* the cells a call determined, as 0-based indices
NewlySet == {p - 1 : p \in {q \in 1..Len(line) : entry[q] = Unknown /\ line[q] # Unknown}}

Range(f) == {f[x] : x \in DOMAIN f}

\* where the search is in the depth-first order of its calls: for each
\* suspended call which child it is waiting for, then the running call
SearchKey(stk, at) ==
    [i \in 1..(Len(stk) + 1) |->
        IF i <= Len(stk) THEN (IF stk[i].child = Empty THEN 1 ELSE 2)
        ELSE IF at = "start" THEN -1
        ELSE IF at = "solving" THEN 0
        ELSE IF at = "returning" THEN 3
        ELSE 4]

\* the lexicographic order on sequences of integers that differ inside
\* their common length
LexLess(x, y) ==
    \E i \in 1..Len(x) :
        /\ i <= Len(y)
        /\ x[i] < y[i]
        /\ \A j \in 1..(i - 1) : x[j] = y[j]

\* the rows and columns of a board
BoardLines(brd) ==
    {LineInfo(r, Row) : r \in 0..(brd.height - 1)}
        \cup {LineInfo(x, Column) : x \in 0..(brd.width - 1)}

\* the number of Unknown cells of a line
UnknownCount(l) == Cardinality({p \in 1..Len(l) : l[p] = Unknown})

RECURSIVE FilledRuns(_)
\* the lengths of the maximal runs of Filled cells of a line, left to right
FilledRuns(l) ==
    IF Len(l) = 0 THEN << >>
    ELSE IF l[1] # Filled THEN FilledRuns(SubSeq(l, 2, Len(l)))
    ELSE LET stop == CHOOSE n \in 2..(Len(l) + 1) :
                        /\ n = Len(l) + 1 \/ l[n] # Filled
                        /\ \A q \in 1..(n - 1) : l[q] = Filled
         IN  <<stop - 1>> \o FilledRuns(SubSeq(l, stop, Len(l)))

\* the cells of a board as the sequence of its rows
BoardRows(brd) ==
    [r \in 1..brd.height |->
        [x \in 1..brd.width |-> brd.cells[(r - 1) * brd.width + x]]]

\* the columns of a sequence of rows of W cells
ColumnOf(rows, x) == [r \in 1..Len(rows) |-> rows[r][x]]

\* no cell is Unknown and every row and column has its constraint list as runs
BoardSatisfied(brd) ==
    LET rows == BoardRows(brd)
    IN  /\ \A n \in 1..Len(brd.cells) : brd.cells[n] # Unknown
        /\ \A r \in 1..brd.height : FilledRuns(rows[r]) = brd.row_constraints[r]
        /\ \A x \in 1..brd.width :
              FilledRuns(ColumnOf(rows, x)) = brd.col_constraints[x]

RECURSIVE CanComplete(_, _)
\* some choice of a placement for each remaining row gives every column its
\* constraint list
CanComplete(brd, rows) ==
    IF Len(rows) = brd.height
    THEN \A x \in 1..brd.width :
            FilledRuns(ColumnOf(rows, x)) = brd.col_constraints[x]
    ELSE LET c == brd.row_constraints[Len(rows) + 1]
         IN  \E st \in Starts(c, brd.width) :
                CanComplete(brd, Append(rows, PlacementLine(st, c, brd.width)))

\* some complete assignment satisfies every row and column constraint
Satisfiable(brd) == CanComplete(brd, << >>)

\* the search runs on the given puzzle
IsPuzzle(puzzle) ==
    /\ b.width = puzzle.width
    /\ b.height = puzzle.height
    /\ b.row_constraints = puzzle.row_constraints
    /\ b.col_constraints = puzzle.col_constraints

\* the 5x5 board with columns 0, 2 and 4 Filled and columns 1 and 3 Empty
StripedCells ==
    [n \in 1..25 |-> IF ((n - 1) % 5) \in {0, 2, 4} THEN Filled ELSE Empty]

\* ------------------------------------------------------------- claims
\* C1: line solver soundness: when try_solve_line_complete succeeds and has
\* set a cell that was Unknown on entry, every placement of the constraints
\* consistent with the entry cells has that value at that cell.
C1_Soundness ==
    (lpc \in {"solved", "again"} /\ result.status = "Some") =>
        \A p \in 1..Len(line) :
            (entry[p] = Unknown /\ line[p] # Unknown) =>
                \A pl \in ConsistentPlacements(entry, cons) : pl[p] = line[p]

\* C1 witness: constraints [2] on ? ? ? ? X are solved to . . . X X
C1_Witness ==
    /\ lpc = "solved"
    /\ result.status = "Some"
    /\ cons = <<2>>
    /\ entry = <<Unknown, Unknown, Unknown, Unknown, Filled>>
    /\ line = <<Empty, Empty, Empty, Filled, Filled>>

\* C2: line solver maximality: on a line with at least one consistent
\* placement the call succeeds and leaves Unknown exactly the cells that are
\* Filled in one consistent placement and Empty in another.
C2_Maximality ==
    (lpc = "solved" /\ ConsistentPlacements(entry, cons) # {}) =>
        /\ result.status = "Some"
        /\ \A p \in 1..Len(line) :
              line[p] = Unknown <=>
                  \E p1, p2 \in ConsistentPlacements(entry, cons) : p1[p] # p2[p]

\* C3: contradiction detection: the call returns None exactly when no
\* placement of the constraints is consistent with the line's cells.
C3_ContradictionIff ==
    lpc = "solved" =>
        (result.status = "None" <=> ConsistentPlacements(entry, cons) = {})

\* C4: when the branching search returns Success, the caller's board has no
\* Unknown cell and the runs of Filled cells of every row and every column
\* are that line's constraint list.
C4_SuccessIsSolution ==
    (pc = "done" /\ value = "Success") => BoardSatisfied(b)

\* C4 witness: the 3x4 puzzle whose first pivot's Empty child fails and
\* whose Filled child succeeds has returned Success to the caller
C4_Witness ==
    /\ pc = "done"
    /\ value = "Success"
    /\ b.col_constraints = <<(<< >>), (<<1, 1>>), (<<2>>)>>
    /\ b.height = 4
    /\ n_branches >= 3
    /\ BoardSatisfied(b)

\* C5: branching completeness: the search returns, with Success if some
\* complete assignment satisfies every row and column constraint and with
\* Contradiction otherwise.
C5_BranchingComplete ==
    (pc \in {"done", "panicked"}) =>
        /\ pc = "done"
        /\ value = (IF Satisfiable(b) THEN "Success" ELSE "Contradiction")

\* C7, as stated: on the 5x5 puzzle with column constraints [5],[1],[5],[1],[5]
\* and row constraints [1,1,1] the search returns Success with columns 0, 2
\* and 4 Filled and columns 1 and 3 Empty.
C7_Scenario5Success ==
    (pc = "done" /\ IsPuzzle(Scenario5)) =>
        /\ value = "Success"
        /\ b.cells = StripedCells

\* C7, amended: that puzzle has no solution and the search returns
\* Contradiction on it; with column constraints [5],[],[5],[],[5] the search
\* returns Success with columns 0, 2 and 4 Filled and columns 1 and 3 Empty.
C7_Scenario5Contradiction ==
    /\ IsPuzzle(Scenario5) =>
          /\ pc # "panicked"
          /\ pc = "done" => (value = "Contradiction" /\ ~Satisfiable(b))
    /\ IsPuzzle(Stripes) =>
          /\ pc # "panicked"
          /\ pc = "done" => (value = "Success" /\ b.cells = StripedCells)

\* C7 witness: the search has returned Contradiction on the scenario's puzzle
C7_Witness ==
    /\ pc = "done"
    /\ IsPuzzle(Scenario5)
    /\ value = "Contradiction"
    /\ n_branches = 1

\* C11: wherever the propagation driver is about to pop a line, at the root
\* and inside every branch, num_unsolved is the sum of the per-row counts and
\* the sum of the per-column counts, and each count is the number of Unknown
\* cells of that line of the board being solved.
C11_MetaConsistent ==
    (pc = "solving" /\ PrioritySet_len(to_solve) > 0) =>
        /\ meta.num_unsolved = SumFirst(meta.unsolved_per_row, b.height)
        /\ meta.num_unsolved = SumFirst(meta.unsolved_per_column, b.width)
        /\ \A r \in 0..(b.height - 1) :
              meta.unsolved_per_row[r + 1] = UnknownCount(get_line(b, LineInfo(r, Row)))
        /\ \A x \in 0..(b.width - 1) :
              meta.unsolved_per_column[x + 1] =
                  UnknownCount(get_line(b, LineInfo(x, Column)))

\* C11 witness: inside the Filled child of a branch, with a line to pop and
\* some cells determined and some not
C11_Witness ==
    /\ pc = "solving"
    /\ PrioritySet_len(to_solve) > 0
    /\ stack # << >>
    /\ stack[Len(stack)].child = Filled
    /\ meta.num_unsolved > 0
    /\ meta.num_unsolved < get_num_cells(b) - 1

\* C12: an insert into the work queue never duplicates a key: on a key that
\* is present the number of entries stays and the key's priority goes up by
\* one, on an absent key exactly one entry is added; no other entry changes.
C12_InsertIdempotent ==
    (q_op.name \in {"insert", "insert_with_priority"}) =>
        LET k == q_op.key
        IN  /\ DOMAIN to_solve = DOMAIN q_before \cup {k}
            /\ PrioritySet_len(to_solve) =
                  PrioritySet_len(q_before) + (IF k \in DOMAIN q_before THEN 0 ELSE 1)
            /\ \A o \in DOMAIN q_before \ {k} : to_solve[o] = q_before[o]
            /\ q_op.name = "insert" =>
                  to_solve[k] = (IF k \in DOMAIN q_before THEN q_before[k] + 1 ELSE 1)

\* C12 witness: an insert of a key that was present with priority 1
C12_Witness ==
    /\ q_op.name = "insert"
    /\ q_op.key \in DOMAIN q_before
    /\ q_before[q_op.key] = 1
    /\ to_solve[q_op.key] = 2
    /\ PrioritySet_len(to_solve) = 2

\* C13: pop on a queue with entries removes exactly the entry it returns,
\* which has the highest priority and, among the entries of that priority,
\* the greatest key by index and then by Row < Column; pop on an empty queue
\* returns None and leaves the queue empty.
C13_PopMax ==
    (q_op.name = "pop") =>
        IF DOMAIN q_before = {}
        THEN q_ret = NoKey /\ to_solve = q_before
        ELSE /\ q_ret \in DOMAIN q_before
             /\ DOMAIN to_solve = DOMAIN q_before \ {q_ret}
             /\ \A o \in DOMAIN to_solve : to_solve[o] = q_before[o]
             /\ \A o \in DOMAIN to_solve :
                   \/ q_before[o] < q_before[q_ret]
                   \/ /\ q_before[o] = q_before[q_ret]
                      /\ \/ o.index < q_ret.index
                         \/ o.index = q_ret.index /\ o.linetype = Row
                                                  /\ q_ret.linetype = Column

\* C13 witness: row 0 and column 0 have the same priority, row 1 a lower
\* one, and pop returns column 0
C13_Witness ==
    /\ q_op.name = "pop"
    /\ q_before = (LineInfo(0, Row) :> 2) @@ (LineInfo(0, Column) :> 2)
                      @@ (LineInfo(1, Row) :> 1)
    /\ q_ret = LineInfo(0, Column)

\* C14: a failed branch leaves no mutation visible to the parent: the Empty
\* child starts on copies of the parent's board, BoardMeta and queue, nothing
\* a running child does changes what a suspended parent holds, and when the
\* Empty child has returned Contradiction the Filled child starts from exactly
\* the board (but for the pivot), BoardMeta and queue the Empty child started
\* from.
C14_FailedBranchInvisible ==
    [][/\ \A i \in 1..Len(stack) :
             i <= Len(stack') =>
                 /\ stack'[i].b = stack[i].b
                 /\ stack'[i].meta = stack[i].meta
                 /\ stack'[i].to_solve = stack[i].to_solve
                 /\ stack'[i].index = stack[i].index
       /\ Len(stack') > Len(stack) =>
             LET frame == stack'[Len(stack')]
             IN  /\ frame.b = b
                 /\ frame.child = Empty
                 /\ b' = set_cell_index(b, frame.index, Empty)
                 /\ meta' = frame.meta
                 /\ to_solve' = frame.to_solve
                 /\ frame.meta = BoardMeta_solve(meta, get_coordinate(b, frame.index).col,
                                                 get_coordinate(b, frame.index).row)
                 /\ DOMAIN frame.to_solve =
                       DOMAIN to_solve
                           \cup {LineInfo(get_coordinate(b, frame.index).row, Row),
                                 LineInfo(get_coordinate(b, frame.index).col, Column)}
       /\ (pc = "returning" /\ pc' = "solving") =>
             LET frame == stack[Len(stack)]
             IN  /\ value = "Contradiction"
                 /\ frame.child = Empty
                 /\ b' = set_cell_index(frame.b, frame.index, Filled)
                 /\ meta' = frame.meta
                 /\ to_solve' = frame.to_solve
      ]_vars

\* C14 witness: the Filled child has just been started, after propagation in
\* the Empty child had determined further cells before its contradiction
C14_Witness ==
    /\ pc = "solving"
    /\ stack # << >>
    /\ LET frame == stack[Len(stack)]
       IN  /\ frame.child = Filled
           /\ b = set_cell_index(frame.b, frame.index, Filled)
           /\ meta = frame.meta
           /\ to_solve = frame.to_solve
           /\ PrioritySet_len(to_solve) = 2
           /\ n_branches >= 3

\* C15: the branching search terminates: every step moves the search forward
\* in the depth-first order of its calls or, inside one propagation run,
\* determines a cell or shortens the queue; every recursive call is made on a
\* board with one Unknown cell fewer than its caller's; and the recursion is
\* never deeper than W * H.
C15_Terminates ==
    /\ [](Len(stack) <= get_num_cells(b))
    /\ [](pc \in {"start", "solving", "returning", "done", "panicked"})
    /\ [][/\ \/ LexLess(SearchKey(stack, pc), SearchKey(stack', pc'))
             \/ /\ SearchKey(stack, pc) = SearchKey(stack', pc')
                /\ pc = "solving"
                /\ \/ UnknownCount(b'.cells) < UnknownCount(b.cells)
                   \/ /\ UnknownCount(b'.cells) = UnknownCount(b.cells)
                      /\ PrioritySet_len(to_solve') < PrioritySet_len(to_solve)
          /\ Len(stack') > Len(stack) =>
                UnknownCount(b'.cells) = UnknownCount(b.cells) - 1
          /\ (pc = "returning" /\ pc' = "solving") =>
                UnknownCount(b'.cells) =
                    UnknownCount(stack[Len(stack)].b.cells) - 1
         ]_vars

\* C15 witness: the search has returned from a run of at least five calls
C15_Witness ==
    /\ pc = "done"
    /\ b.height = 4
    /\ n_branches >= 5

\* C16: outcomes of the propagation driver: stupid_solver_set returns Success
\* only with num_unsolved = 0; it returns None (stalled), upon which the
\* search branches, only with the queue empty and num_unsolved > 0; it returns Contradiction only when the line
\* solver returned None on the popped line or is_solvable was false on a line
\* crossing a cell that line solve had just determined.
C16_DriverOutcomes ==
    [][/\ (pc = "solving" /\ pc' = "returning" /\ value' = "Success") =>
             meta'.num_unsolved = 0
       /\ (pc = "solving" /\ Len(stack') > Len(stack)) =>
             /\ PrioritySet_len(to_solve) = 0
             /\ meta.num_unsolved > 0
       /\ (pc = "solving" /\ pc' = "returning" /\ value' = "Contradiction") =>
             /\ PrioritySet_len(to_solve) > 0
             /\ LET lineid == PrioritySet_top(to_solve)
                    r == try_solve_line_complete(get_line(b, lineid),
                             line_constraints(b, lineid), overflow_checks)
                    written == set_line(b, lineid, r.line)
                IN  \/ r.status = "None"
                    \/ /\ r.status = "Some"
                       /\ \E n \in 1..Len(r.ret) :
                             /\ get_cell(get_line(b, lineid), r.ret[n]) = Unknown
                             /\ ~is_solvable(
                                    get_line(written, crossing(lineid, r.ret[n])),
                                    line_constraints(written, crossing(lineid, r.ret[n])))
      ]_vars

\* C16 witness: inside a branch, which a stalled run opened, a run has
\* returned Contradiction with cells still unsolved
C16_Witness ==
    /\ pc = "returning"
    /\ value = "Contradiction"
    /\ stack # << >>
    /\ meta.num_unsolved > 0
    /\ PrioritySet_len(to_solve) > 0

\* C17: a fully determined line with a constraint list that fits it is
\* accepted, by is_solvable returning true and by try_solve_line_complete
\* not reporting a contradiction, exactly when generate_new_constraints of
\* the line is the constraint list.
C17_RunsRoundTrip ==
    (/\ \A p \in 1..Len(entry) : entry[p] # Unknown
     /\ c_sum(cons) + Len(cons) - 1 <= Len(entry)) =>
        /\ feasible # "NotCalled" =>
              (feasible = "true" <=> generate_new_constraints(entry) = cons)
        /\ lpc = "solved" =>
              (result.status = "Some" <=> generate_new_constraints(entry) = cons)
        /\ lpc = "solved" => result.status \in {"Some", "None"}

\* C17 witness: X . X X . with constraints [1,2] was accepted by both
C17_Witness ==
    /\ lpc = "solved"
    /\ feasible = "true"
    /\ result.status = "Some"
    /\ entry = <<Filled, Empty, Filled, Filled, Empty>>
    /\ cons = <<1, 2>>
    /\ generate_new_constraints(entry) = <<1, 2>>

\* C18: quiescence: when the propagation driver returns None (stalled), the
\* line solver run on any row or column of the board would report no
\* contradiction and change no cell.
C18_Quiescence ==
    (pc = "solving" /\ PrioritySet_len(to_solve) = 0 /\ meta.num_unsolved > 0) =>
        \A lineid \in BoardLines(b) :
            LET r == try_solve_line_complete(get_line(b, lineid),
                         line_constraints(b, lineid), overflow_checks)
            IN  /\ r.status = "Some"
                /\ r.ret = << >>
                /\ \A p \in 1..Len(r.line) : r.line[p] = get_line(b, lineid)[p]

\* C18 witness: a run inside a branch has stalled on a board where it had
\* determined cells beyond the pivots
C18_Witness ==
    /\ pc = "solving"
    /\ PrioritySet_len(to_solve) = 0
    /\ meta.num_unsolved > 0
    /\ stack # << >>
    /\ meta.num_unsolved < get_num_cells(b) - Len(stack)

\* C19: when the propagation driver has processed a popped line without a
\* contradiction, then for every cell that line solve determined the crossing
\* line (other axis, index of the cell) has been inserted into the queue, its
\* priority one higher than before or 1, if its unsolved count is still above
\* zero, and has not been inserted if its count has dropped to zero.
C19_CrossingQueued ==
    [][(/\ pc = "solving"
        /\ PrioritySet_len(to_solve) > 0
        /\ pc' # "panicked"
        /\ ~(pc' = "returning" /\ value' = "Contradiction")) =>
          LET lineid == PrioritySet_top(to_solve)
              popped == PrioritySet_remove(to_solve, lineid)
          IN  \A n \in 1..Len(b.cells) :
                  (b.cells[n] = Unknown /\ b'.cells[n] # Unknown) =>
                      LET col == (n - 1) % b.width
                          row == (n - 1) \div b.width
                          cross == IF lineid.linetype = Row
                                   THEN LineInfo(col, Column)
                                   ELSE LineInfo(row, Row)
                          count == IF lineid.linetype = Row
                                   THEN meta'.unsolved_per_column[col + 1]
                                   ELSE meta'.unsolved_per_row[row + 1]
                          was == IF cross \in DOMAIN popped THEN popped[cross] ELSE 0
                      IN  IF count > 0
                          THEN cross \in DOMAIN to_solve' /\ to_solve'[cross] = was + 1
                          ELSE IF was = 0
                          THEN cross \notin DOMAIN to_solve'
                          ELSE cross \in DOMAIN to_solve' /\ to_solve'[cross] = was
      ]_vars

\* C19 witness: after a step, a line still unsolved is queued with a raised
\* priority while a line solved through its crossing lines is not queued
C19_Witness ==
    /\ pc = "solving"
    /\ meta.num_unsolved > 0
    /\ \E l \in DOMAIN to_solve : to_solve[l] >= 2 /\ ~is_line_solved(meta, l)
    /\ \E l \in BoardLines(b) :
          /\ is_line_solved(meta, l)
          /\ l \notin DOMAIN to_solve
          /\ line_constraints(b, l) # << >>

\* C20: exactness of the marks of pass 3, for at least one constraint: a
\* cell's can_be_filled is true exactly when a placement consistent with the
\* line covers the cell with a run, and its can_be_empty is true exactly when
\* a consistent placement leaves the cell outside every run.
C20_MarksExact ==
    (lpc = "solved" /\ Len(cons) >= 1 /\ result.status # "Panic") =>
        LET h == num_nodes_height(entry, cons)
            determined == find_full_paths(entry, cons, h,
                              make_node_list(entry, cons, h))
            nv == node_values(entry, cons, h, determined)
        IN  \A p \in 0..(Len(entry) - 1) :
                /\ nv[p].can_be_filled <=>
                      \E pl \in ConsistentPlacements(entry, cons) : pl[p + 1] = Filled
                /\ nv[p].can_be_empty <=>
                      \E pl \in ConsistentPlacements(entry, cons) : pl[p + 1] = Empty

\* C21: the gap marking between runs is safe: for every node (i, j) on a
\* full path with i < C - 1, the successor k whose gap pass 3 marks is joined
\* to (i, j) by a valid edge, so the cells marked are among the gaps of the
\* valid edges from (i, j) to nodes of layer i + 1 on a full path.
C21_GapMarkingSafe ==
    (lpc = "solved" /\ Len(cons) >= 1 /\ result.status # "Panic") =>
        LET h == num_nodes_height(entry, cons)
            determined == find_full_paths(entry, cons, h,
                              make_node_list(entry, cons, h))
        IN  \A n \in valid_nodes(cons, h, determined) :
                n[1] < Len(cons) - 1 =>
                    LET reachable == longest_edge_candidates(n[1], n[2], h, determined)
                        k == SetMax(reachable)
                        valid == {k2 \in reachable :
                                     determine_edge(n[1], n[2], k2, cons, entry)}
                    IN  /\ determine_edge(n[1], n[2], k, cons, entry)
                        /\ get_edge_range(n[1], n[2], k, cons) \subseteq
                              UNION {get_edge_range(n[1], n[2], k2, cons) : k2 \in valid}

\* C22: the feasibility check agrees with the line solver and writes no
\* cell: is_solvable returns false exactly on the lines on which
\* try_solve_line_complete returns None, the two panic on the same lines, and
\* the line is as it was after is_solvable.
C22_FeasibilityAgrees ==
    /\ (lpc = "start" /\ feasible # "NotCalled") => line = entry
    /\ (lpc = "solved" /\ feasible \in {"true", "false"}) =>
          (feasible = "false" <=> result.status = "None")
    /\ lpc = "solved" =>
          /\ result.status = "Panic" <=>
                is_solvable_panics(entry, cons, overflow_checks)
          /\ result.status = "None" <=>
                /\ ~is_solvable_panics(entry, cons, overflow_checks)
                /\ ~is_solvable(entry, cons)

\* C22 witness: is_solvable returned false on X ? . X ? for [3], and then the
\* line solver returned None
C22_Witness ==
    /\ lpc = "solved"
    /\ feasible = "false"
    /\ result.status = "None"
    /\ cons = <<3>>
    /\ entry = <<Filled, Unknown, Empty, Filled, Unknown>>

\* C26: when pass 3 runs, every node (i, j) marked Some(true) with i < C - 1
\* has a k >= j with node (i + 1, k) marked Some(true), so max().unwrap()
\* has a value and the call does not panic there.
C26_UnwrapNeverPanics ==
    (/\ lpc = "solved"
     /\ Len(cons) >= 1
     /\ ~slack_panics(entry, cons, overflow_checks)) =>
        LET h == num_nodes_height(entry, cons)
            determined == find_full_paths(entry, cons, h,
                              make_node_list(entry, cons, h))
        IN  /\ \A i \in 0..(Len(cons) - 2), j \in 0..(h - 1) :
                  determined[i][j] = SomeTrue =>
                      \E k \in j..(h - 1) : determined[i + 1][k] = SomeTrue
            /\ result.status # "Panic"

\* C26 witness: [1,1] on ? ? X ? ?, where NODE[0,0] and NODE[0,2] are on
\* full paths, was solved
C26_Witness ==
    /\ lpc = "solved"
    /\ cons = <<1, 1>>
    /\ entry = <<Unknown, Unknown, Filled, Unknown, Unknown>>
    /\ result.status = "Some"
    /\ LET determined == find_full_paths(entry, cons, 3, make_node_list(entry, cons, 3))
       IN  determined[0][0] = SomeTrue /\ determined[0][2] = SomeTrue

\* C27: state unchanged on error: when try_solve_line_complete returns None
\* every cell of the line is as it was on entry.
C27_UnchangedOnError ==
    (lpc = "solved" /\ result.status = "None") => line = entry

\* C23: branch ordering. A branch point starts the child with the pivot set
\* to Empty and nothing else changed; the child with the pivot set to Filled
\* is started only when the Empty child has returned Contradiction; when the
\* Empty child returns Success the caller returns Success with that child's
\* board and no further child is started; when the Filled child fails too
\* the caller returns Contradiction.
C23_BranchOrdering ==
    [][/\ Len(stack') > Len(stack) =>
             LET frame == stack'[Len(stack')]
             IN  /\ stack' = Append(stack, frame)
                 /\ frame.child = Empty
                 /\ frame.b = b
                 /\ b.cells[frame.index + 1] = Unknown
                 /\ b' = [b EXCEPT !.cells[frame.index + 1] = Empty]
       /\ (Len(stack') = Len(stack) /\ stack' # stack) =>
             LET frame == stack[Len(stack)]
             IN  /\ pc = "returning"
                 /\ value = "Contradiction"
                 /\ frame.child = Empty
                 /\ stack' = [stack EXCEPT ![Len(stack)].child = Filled]
                 /\ b' = [frame.b EXCEPT !.cells[frame.index + 1] = Filled]
                 /\ pc' = "solving"
       /\ (pc = "returning" /\ stack # << >> /\ value = "Success") =>
             /\ stack' = SubSeq(stack, 1, Len(stack) - 1)
             /\ b' = b
             /\ value' = "Success"
             /\ pc' = "returning"
             /\ n_branches' = n_branches
       /\ (pc = "returning" /\ stack # << >> /\ value = "Contradiction"
              /\ stack[Len(stack)].child = Filled) =>
             /\ stack' = SubSeq(stack, 1, Len(stack) - 1)
             /\ value' = "Contradiction"
             /\ pc' = "returning"
      ]_vars

\* C23 witness: the Empty child has returned Success to its caller, with
\* the pivot Empty on its completed board
C23_Witness ==
    /\ pc = "returning"
    /\ value = "Success"
    /\ stack # << >>
    /\ stack[Len(stack)].child = Empty
    /\ b.cells[stack[Len(stack)].index + 1] = Empty
    /\ BoardSatisfied(b)

\* the row and the column through cell index of a board of the width of brd
LinesThrough(brd, index) ==
    {LineInfo(index \div brd.width, Row), LineInfo(index % brd.width, Column)}

\* C24: pivot commitment. The pivot of a branch point is the first Unknown
\* cell of the stalled board in row-major order, and both the Empty child and
\* the Filled child start with the pivot's row and the pivot's column in the
\* work queue.
C24_PivotCommitment ==
    [][/\ Len(stack') > Len(stack) =>
             LET index == stack'[Len(stack')].index
             IN  /\ b.cells[index + 1] = Unknown
                 /\ \A j \in 0..(index - 1) : b.cells[j + 1] # Unknown
                 /\ b'.cells[index + 1] = Empty
                 /\ LinesThrough(b, index) \subseteq DOMAIN to_solve'
       /\ (pc = "returning" /\ pc' = "solving") =>
             LET frame == stack[Len(stack)]
             IN  /\ stack'[Len(stack')].index = frame.index
                 /\ b'.cells[frame.index + 1] = Filled
                 /\ LinesThrough(frame.b, frame.index) \subseteq DOMAIN to_solve'
      ]_vars

\* C24 witness: the Filled child has just been started on a pivot that is not
\* the first cell of the board, with the pivot's row and column queued
C24_Witness ==
    /\ pc = "solving"
    /\ stack # << >>
    /\ LET frame == stack[Len(stack)]
       IN  /\ frame.child = Filled
           /\ frame.index > 0
           /\ b.cells[frame.index + 1] = Filled
           /\ frame.b.cells[frame.index + 1] = Unknown
           /\ unpopped = LinesThrough(b, frame.index)
           /\ unpopped \subseteq DOMAIN to_solve

\* the line is popped next, for the first time since the running call was
\* started on its pivot
FirstPop(l) ==
    /\ pc = "solving"
    /\ PrioritySet_len(to_solve) > 0
    /\ l = PrioritySet_top(to_solve)
    /\ l \in unpopped

\* at a branch point the pivot's row and column each hold at least two
\* Unknown cells, and neither counts as solved after the pivot's decrement
PivotLinesOpen ==
    Len(stack') > Len(stack) =>
        \A l \in LinesThrough(b, stack'[Len(stack')].index) :
            /\ UnknownCount(get_line(b, l)) >= 2
            /\ ~is_line_solved(meta', l)

\* C25 as stated: whenever the search started on an all-Unknown board takes
\* a pivot, the pivot's row and column each contain at least two Unknown
\* cells, so neither has unsolved count zero after the decrement, and
\* neither is skipped as already solved when the child pops it.
C25_PivotLinesNotSkipped ==
    [][/\ PivotLinesOpen
       /\ \A l \in unpopped : FirstPop(l) => ~is_line_solved(meta, l)
      ]_vars

\* C25, amended: whenever the search started on an all-Unknown board takes a
\* pivot, the pivot's row and column each contain at least two Unknown cells
\* and neither has unsolved count zero after the decrement; the child's first
\* pop is one of the two and is solved by the line solver; the other may be
\* completed by its crossing lines before it is popped and is then skipped,
\* with no Unknown cell left and having passed is_solvable.
C25_PivotLinesOpenAtStall ==
    [][/\ PivotLinesOpen
       /\ (pc = "solving" /\ Cardinality(unpopped) = 2) =>
             /\ DOMAIN to_solve = unpopped
             /\ ~is_line_solved(meta, PrioritySet_top(to_solve))
       /\ \A l \in unpopped :
             (FirstPop(l) /\ is_line_solved(meta, l)) =>
                 /\ Cardinality(unpopped) = 1
                 /\ UnknownCount(get_line(b, l)) = 0
                 /\ is_solvable(get_line(b, l), line_constraints(b, l))
                 /\ b' = b
      ]_vars

\* C25 witness: a child is about to pop, for the first time, a line of its
\* pivot that its crossing lines have already completed
C25_Witness ==
    /\ stack # << >>
    /\ \E l \in unpopped : FirstPop(l) /\ is_line_solved(meta, l)

\* the board of b's puzzle as it is read from the puzzle file, all Unknown
PuzzleBoard ==
    new_board(Puzzle(b.width, b.height, b.row_constraints, b.col_constraints))

\* every constraint list of b's puzzle fits its line
ListsFit ==
    /\ \A i \in 1..b.height :
          c_sum(b.row_constraints[i]) + Len(b.row_constraints[i]) <= b.width + 1
    /\ \A i \in 1..b.width :
          c_sum(b.col_constraints[i]) + Len(b.col_constraints[i]) <= b.height + 1

\* C28: the round-robin search and the queue-driven search are equivalent:
\* on every puzzle, started on the all-Unknown board, stupid_branched_solver
\* returns the SolveResult that stupid_branched_solver_set returns, and when
\* that is Success the two leave the same board.
C28_SearchesAgree ==
    (pc \in {"done", "panicked"}) =>
        LET rr == stupid_branched_solver(PuzzleBoard, overflow_checks)
        IN  /\ rr.status = (IF pc = "done" THEN value ELSE "Panic")
            /\ (pc = "done" /\ value = "Success") => rr.b = b

\* C28 on the puzzles whose constraint lists all fit their lines: there the
\* two searches return the same result and, on Success, the same board
C28_SearchesAgreeWhereListsFit ==
    (pc \in {"done", "panicked"} /\ ListsFit) =>
        LET rr == stupid_branched_solver(PuzzleBoard, overflow_checks)
        IN  /\ pc = "done"
            /\ rr.status = value
            /\ value = "Success" => rr.b = b

\* C6: on success the returned list holds exactly the cells that were
\* Unknown on entry and are determined on exit, once each; every other cell
\* is unchanged, and no determined cell is ever changed.
C6_Frame ==
    (lpc \in {"solved", "again"} /\ result.status = "Some") =>
        /\ Range(result.ret) = NewlySet
        /\ Len(result.ret) = Cardinality(NewlySet)
        /\ \A p \in 1..Len(line) :
              (p - 1 \notin Range(result.ret)) => line[p] = entry[p]
        /\ \A p \in 1..Len(line) : entry[p] # Unknown => line[p] = entry[p]

\* C6 witness: a successful call that set some cells and left others
C6_Witness ==
    /\ lpc = "solved"
    /\ result.status = "Some"
    /\ cons = <<3>>
    /\ entry = <<Unknown, Unknown, Unknown, Unknown, Empty>>
    /\ result.ret = <<1, 2>>
    /\ line = <<Unknown, Filled, Filled, Unknown, Empty>>

\* C8: idempotence: a second call right after a successful one succeeds,
\* reports no changed index and changes no cell.
C8_Idempotent ==
    lpc = "again" =>
        /\ result.status = "Some"
        /\ result.ret = << >>
        /\ line = entry

\* C8 witness: the second call on the line that [2] over ? ? ? ? X gave
C8_Witness ==
    /\ lpc = "again"
    /\ cons = <<2>>
    /\ entry = <<Empty, Empty, Empty, Filled, Filled>>
    /\ result.ret = << >>

\* C9: with an empty constraint list the call reports a contradiction if a
\* cell is Filled; otherwise it sets every Unknown cell to Empty, reports
\* exactly those cells and leaves the line entirely Empty.
C9_EmptyConstraints ==
    (lpc = "solved" /\ Len(cons) = 0) =>
        IF \E p \in 1..Len(entry) : entry[p] = Filled
        THEN result.status = "None"
        ELSE /\ result.status = "Some"
             /\ \A p \in 1..Len(line) : line[p] = Empty
             /\ Range(result.ret) = {p - 1 : p \in {q \in 1..Len(entry) : entry[q] = Unknown}}
             /\ Len(result.ret) = Cardinality(Range(result.ret))

\* C9 witness: no constraints on ? ? ? ?, every cell set to Empty
C9_Witness ==
    /\ lpc = "solved"
    /\ cons = << >>
    /\ entry = <<Unknown, Unknown, Unknown, Unknown>>
    /\ line = <<Empty, Empty, Empty, Empty>>
    /\ result = [status |-> "Some", ret |-> <<0, 1, 2, 3>>]

\* C10: a constraint list that does not fit the line (sum + count - 1 >
\* length) is reported as a contradiction by try_solve_line_complete and as
\* unsolvable by is_solvable, without a panic.
C10_TooLongDetected ==
    (c_sum(cons) + Len(cons) - 1 > Len(entry)) =>
        /\ lpc = "solved" => result.status = "None"
        /\ feasible \in {"NotCalled", "false"}

====
